---- MODULE Spec2Model ----
(***************************************************************************)
(* Model of common/synt_wave/synt_song_khe.py: the sustain-pedal resolver  *)
(* (apply_pedal), the overtone synthesizer (apply_overtones), the ADSR     *)
(* envelope generator (get_adsr_weights) and the song assembler            *)
(* (get_song_data).                                                        *)
(*                                                                         *)
(* Arithmetic.  The program computes in IEEE doubles and decides by exact  *)
(* comparison (cum_value == bar_value, % bar_value == 0) and by truncation *)
(* (int(), astype(int)), so rounding is visible in its results.  The model *)
(* keeps it: a time (note duration, bar length) and everything computed    *)
(* from a time is a binary floating-point number with a significand of     *)
(* Precision bits, held as an integer number of quanta of 2^-FracBits, and *)
(* every +, -, *, / on such numbers rounds to nearest, ties to even, as    *)
(* the hardware does.  Whole numbers (sample rates, frequencies, sample    *)
(* counts) are exact.  Overtone weights and ADSR stage fractions are exact *)
(* fractions of FracDen; waveform and envelope samples are fixed-point.    *)
(* Frequencies and sample rates are scaled down together so that a buffer  *)
(* holds tens of samples instead of tens of thousands.  Python's sum() and *)
(* numpy's sum and cumsum add the few numbers of a song one after another. *)
(***************************************************************************)
EXTENDS Integers, Sequences, FiniteSets, TLC

VARIABLES
    pc,             \* position of the running call, or the exception that ended it
    note_values,    \* apply_pedal / get_song_data argument: nominal durations (quanta)
    bar_value,      \* apply_pedal / get_song_data argument: bar length (quanta)
    new_values,     \* apply_pedal local: effective durations built so far
    start,          \* apply_pedal local: 0-based index where the current run starts
    frequency,      \* apply_overtones / get_adsr_weights argument (Hz)
    dur,            \* apply_overtones / get_adsr_weights argument `duration` (quanta)
    synth_rate,     \* apply_overtones / get_adsr_weights argument `sample_rate`
    synth_amp,      \* apply_overtones argument `amplitude`
    factor,         \* overtone profile, in units of 1/FracDen
    ot_frequencies, \* apply_overtones local `frequencies`
    ot_i,           \* apply_overtones loop index `i`
    sine_calls,     \* the get_sine_wave calls made so far: <<frequency, amplitude>>
    fundamental,    \* apply_overtones local and result (this_note of the caller)
    length,         \* ADSR stage lengths, in units of 1/FracDen
    decay,          \* ADSR stage decay factors, in units of 1/FracDen
    sustain_level,  \* ADSR sustain level, in units of 1/FracDen
    weights,        \* get_adsr_weights result, in units of 1/WScale
    music_notes,    \* get_song_data argument: note names
    sample_rate,    \* get_song_data argument
    amplitude,      \* get_song_data argument
    frequencies,    \* get_song_data local: the notes' frequencies
    duration,       \* get_song_data local: length of the song buffer
    start_idx,      \* get_song_data local
    end_idx,        \* get_song_data local
    song,           \* get_song_data local: the accumulating buffer
    i,              \* get_song_data loop index
    song_out,       \* get_song_data result: num * mul / div, element-wise
    render,         \* which of two consecutive get_song_data calls is running
    first,          \* how the first call ended and what it returned
    given           \* the arguments as the caller built them before the first call

pedal_vars == <<new_values, start>>

overtone_vars == <<ot_frequencies, ot_i, sine_calls, fundamental>>

call_vars == <<frequency, dur, synth_rate, synth_amp>>

profile_vars == <<factor, length, decay, sustain_level>>

song_args == <<music_notes, note_values, bar_value, sample_rate, amplitude>>

song_locals == <<frequencies, duration, start_idx, end_idx, song, i, song_out>>

harness_vars == <<render, first, given>>

vars == <<pc, pedal_vars, overtone_vars, call_vars, profile_vars, weights,
          song_args, song_locals, harness_vars>>

\* ---------------------------------------------------------------- bounds

MaxNotes == 3
MaxDur == 8
MaxBar == 8
MaxSongNotes == 2
MaxFreq == 6

\* bits in the significand of a floating-point number (53 in the program)
Precision == 3

\* a floating-point number is held as a count of quanta of 2^-FracBits
FracBits == 3

\* the largest binary exponent of a floating-point number, counted from the
\* first binade (1023 in the program)
MaxExponent == 12

\* fractions (overtone weights, stage lengths, decay factors, sustain level)
\* are multiples of 1/FracDen
FracDen == 4

\* envelope weights are fixed-point numbers, WScale units to 1.0
WScale == 16

\* the default sample rate is 2^RateBits samples per second
RateBits == 4

\* ------------------------------------------------------ program constants

DEFAULT_AMPLITUDE == 4096

\* ------------------------------------------------------- numeric helpers

RECURSIVE Pow(_, _)
Pow(b, n) ==
    IF n = 0 THEN 1 ELSE b * Pow(b, n - 1)

\* quanta to the unit
Scale == Pow(2, FracBits)

\* stands for sample_rates.sample_rate_44100, the default sample rate, scaled
\* down with the frequencies
DefaultRate == Pow(2, RateBits)

\* Python round(): the integer nearest to p / q, a tie going to the even one
\* (p >= 0, q > 0)
round(p, q) ==
    LET fl == p \div q
        twice == 2 * (p % q)
    IN  IF twice < q THEN fl
        ELSE IF twice > q THEN fl + 1
        ELSE IF fl % 2 = 0 THEN fl ELSE fl + 1

\* the spacings 2^e of the floating-point numbers, binade by binade
Steps ==
    {Pow(2, e) : e \in 0..MaxExponent}

\* the floating-point number nearest to mag / q quanta (mag >= 0, q > 0): the
\* quotient is rounded to a multiple of the spacing of its binade, the least
\* 2^e with mag / q < 2^(Precision + e)
nearest_magnitude(mag, q) ==
    CHOOSE rounded \in
        {round(mag, q * step) * step :
            step \in {CHOOSE st \in Steps :
                         /\ mag < q * Pow(2, Precision) * st
                         /\ \A lower \in Steps :
                                mag < q * Pow(2, Precision) * lower => st <= lower}} : TRUE

\* the floating-point number nearest to p / q quanta (q > 0): the result of
\* one correctly rounded operation
nearest_float(p, q) ==
    CHOOSE rounded \in
        {IF exact >= 0 THEN nearest_magnitude(exact, q)
                       ELSE -nearest_magnitude(-exact, q) : exact \in {p}} : TRUE

\* a + b, a - b, a * b, a / b on floating-point numbers
fadd(a, b) == nearest_float(a + b, 1)
fsub(a, b) == nearest_float(a - b, 1)
fmul(a, b) == nearest_float(a * b, Scale)
fdiv(a, b) == nearest_float(a * Scale, b)

\* a whole number as an operand of floating-point arithmetic: the conversion
\* of an int (a sample count, a rate, a frequency) to a double is exact
float(k) ==
    k * Scale

\* int() / astype(int) of a floating-point number: truncation towards zero
int(a) ==
    IF a >= 0 THEN a \div Scale ELSE -((-a) \div Scale)

\* round() of a non-negative floating-point number
round_float(a) ==
    round(a, Scale)

RECURSIVE Sum(_)
\* the exact sum of a sequence of whole numbers
Sum(s) ==
    IF s = <<>> THEN 0 ELSE Sum(SubSeq(s, 1, Len(s) - 1)) + s[Len(s)]

RECURSIVE fsum(_)
\* Python sum() and np.sum() of floating-point numbers: added one by one,
\* left to right, each addition rounded
fsum(s) ==
    IF s = <<>>
       THEN 0
       ELSE CHOOSE total \in {fadd(partial, s[Len(s)]) :
                                 partial \in {fsum(SubSeq(s, 1, Len(s) - 1))}} : TRUE

\* np.cumsum: the running sums of a sequence
cumsum(s) ==
    [k \in 1..Len(s) |-> fsum(SubSeq(s, 1, k))]

\* Python slice s[lo:] for 0 <= lo (empty when lo >= len(s))
SliceFrom(s, lo) ==
    SubSeq(s, lo + 1, Len(s))

\* (mutant) a bar counts as filled once the running sum reaches it
where_reached(cum_value, bar) ==
    {k - 1 : k \in {j \in 1..Len(cum_value) : cum_value[j] >= bar}}

\* np.where(cum_value == bar_value)[0]: the 0-based offsets where the
\* running sum equals the bar length exactly
where_equal(cum_value, bar) ==
    {k - 1 : k \in {j \in 1..Len(cum_value) : cum_value[j] = bar}}

Min(S) ==
    CHOOSE x \in S : \A y \in S : x <= y

\* the list comprehension of line 147: note i of the run rings for the bar
\* length less the nominal durations of the run's notes before it
sustained(this_bar, bar) ==
    [k \in 1..Len(this_bar) |-> fsub(bar, fsum(SubSeq(this_bar, 1, k - 1)))]

\* (mutant) the run is not skipped whole: start += end
next_start_short(run_start, end) ==
    run_start + end

\* line 148: start += end + 1
next_start(run_start, end) ==
    run_start + end + 1

\* ---------------------------------------------------------- apply_pedal

\* line 137: assert sum(note_values) % bar_value == 0, then lines 138-139
pedal_assert ==
    /\ pc = "pedal_assert"
    /\ IF fsum(note_values) % bar_value = 0
          THEN /\ pc' = "pedal_scan"
               /\ new_values' = <<>>
               /\ start' = 0
          ELSE /\ pc' = "AssertionError"
               /\ UNCHANGED <<new_values, start>>
    /\ UNCHANGED <<overtone_vars, call_vars, profile_vars, weights, song_args,
                   song_locals, harness_vars>>

\* (mutant) the run's effective durations are also written back into the
\* caller's list: note_values[start:start + end + 1] = ...
pedal_scan_in_place ==
    /\ pc = "pedal_scan"
    /\ LET cum_value == cumsum(SliceFrom(note_values, start))
           hits == where_equal(cum_value, bar_value)
       IN  IF hits = {}
              THEN /\ pc' = "IndexError"
                   /\ UNCHANGED <<new_values, start, note_values>>
              ELSE LET end == Min(hits)
                       this_bar == SubSeq(note_values, start + 1, start + end + 1)
                       run == IF end = 0 THEN <<note_values[start + 1]>>
                                         ELSE sustained(this_bar, bar_value)
                   IN  /\ new_values' = new_values \o run
                       /\ note_values' = [k \in 1..Len(note_values) |->
                                            IF start < k /\ k <= start + end + 1
                                               THEN run[k - start]
                                               ELSE note_values[k]]
                       /\ start' = next_start(start, end)
                       /\ pc' = IF start' = Len(note_values)
                                   THEN "pedal_return"
                                   ELSE "pedal_scan"
    /\ UNCHANGED <<music_notes, bar_value, sample_rate, amplitude>>
    /\ UNCHANGED <<overtone_vars, call_vars, profile_vars, weights, song_locals,
                   harness_vars>>

\* lines 141-150: one iteration of the while True loop
pedal_scan ==
    /\ pc = "pedal_scan"
    /\ LET cum_value == cumsum(SliceFrom(note_values, start))
           hits == where_equal(cum_value, bar_value)
       IN  IF hits = {}
              THEN \* [0][0] of an empty index array
                   /\ pc' = "IndexError"
                   /\ UNCHANGED <<new_values, start>>
              ELSE LET end == Min(hits)
                       this_bar == SubSeq(note_values, start + 1, start + end + 1)
                   IN  /\ new_values' =
                              IF end = 0
                                 THEN new_values \o <<note_values[start + 1]>>
                                 ELSE new_values \o sustained(this_bar, bar_value)
                       /\ start' = next_start(start, end)
                       /\ pc' = IF start' = Len(note_values)
                                   THEN "pedal_return"
                                   ELSE "pedal_scan"
    /\ UNCHANGED <<overtone_vars, call_vars, profile_vars, weights, song_args,
                   song_locals, harness_vars>>

\* ------------------------------------------------------ apply_overtones

\* line 44: assert abs(1 - sum(factor)) < 1e-8, on the 1/FracDen grid
profile_sums_to_one(profile) ==
    Sum(profile) = FracDen

\* (mutant) the harmonics are not clamped
harmonic_frequencies_unclamped(f, profile, rate) ==
    [k \in 1..Len(profile) |-> f * k]

\* line 46: np.minimum([frequency * (x + 1) for x in range(len(factor))],
\* sample_rate // 2)
harmonic_frequencies(f, profile, rate) ==
    [k \in 1..Len(profile) |->
        IF f * k <= rate \div 2 THEN f * k ELSE rate \div 2]

\* line 47: amplitudes, in units of 1/FracDen
harmonic_amplitudes(amp, profile) ==
    [k \in 1..Len(profile) |-> amp * profile[k]]

\* 3 * sin(2 pi k / 8), rounded: one cycle of the sine in eight steps
sin_table ==
    <<0, 2, 3, 2, 0, -2, -3, -2>>

\* sin(2 pi f j / rate), with the phase cut to eighths of a cycle
sine(f, j, rate) ==
    sin_table[(((8 * f * j) \div rate) % 8) + 1]

\* get_sine_wave(frequency, duration, sample_rate, amplitude): round(duration *
\* sample_rate) samples of amplitude * sin(2 pi frequency t)
get_sine_wave(f, d, rate, amp) ==
    [j \in 1..round_float(fmul(d, float(rate))) |-> amp * sine(f, j - 1, rate)]

\* element-wise sum of two arrays of one shape
add_arrays(a, b) ==
    [j \in 1..Len(a) |-> a[j] + b[j]]

\* lines 44-49: the assertion, the harmonic tables and the fundamental's wave
overtones_first ==
    /\ pc = "overtones"
    /\ IF profile_sums_to_one(factor)
          THEN LET fs == harmonic_frequencies(frequency, factor, synth_rate)
                   as == harmonic_amplitudes(synth_amp, factor)
               IN  /\ ot_frequencies' = fs
                   /\ fundamental' = get_sine_wave(fs[1], dur, synth_rate, as[1])
                   /\ sine_calls' = <<<<fs[1], as[1]>>>>
                   /\ ot_i' = 1
                   /\ pc' = "overtones_loop"
          ELSE /\ pc' = "AssertionError"
               /\ UNCHANGED overtone_vars
    /\ UNCHANGED <<pedal_vars, call_vars, profile_vars, weights, song_args,
                   song_locals, harness_vars>>

\* lines 50-52: one overtone is synthesized and added
overtones_add ==
    /\ pc = "overtones_loop"
    /\ ot_i < Len(factor)
    /\ LET f == ot_frequencies[ot_i + 1]
           a == harmonic_amplitudes(synth_amp, factor)[ot_i + 1]
       IN  /\ fundamental' = add_arrays(fundamental, get_sine_wave(f, dur, synth_rate, a))
           /\ sine_calls' = Append(sine_calls, <<f, a>>)
    /\ ot_i' = ot_i + 1
    /\ UNCHANGED <<pc, ot_frequencies>>
    /\ UNCHANGED <<pedal_vars, call_vars, profile_vars, weights, song_args,
                   song_locals, harness_vars>>

\* line 53: return fundamental
overtones_return ==
    /\ pc = "overtones_loop"
    /\ ot_i = Len(factor)
    /\ pc' = "overtones_return"
    /\ UNCHANGED <<pedal_vars, overtone_vars, call_vars, profile_vars, weights,
                   song_args, song_locals, harness_vars>>

\* ----------------------------------------------------- get_adsr_weights

Max(a, b) ==
    IF a >= b THEN a ELSE b

\* np.max / np.nanmax of a non-empty array
MaxOf(s) ==
    CHOOSE x \in {s[k] : k \in 1..Len(s)} : \A k \in 1..Len(s) : s[k] <= x

\* line 87: intervals = int(duration * frequency)
adsr_intervals(f, d) ==
    int(fmul(d, float(f)))

\* lines 88-91: np.maximum(int(intervals * length[k]), 1)
stage_cycles(intervals, stage_length) ==
    Max((intervals * stage_length) \div FracDen, 1)

\* [(1 - decay) ** n for n in range(count)], in units of 1/WScale
decay_curve(stage_decay, count) ==
    [n \in 1..count |->
        (WScale * Pow(FracDen - stage_decay, n - 1)) \div Pow(FracDen, n - 1)]

\* lines 98-99: A = 1 / [(1 - decay_A) ** n ...]; A = A / np.nanmax(A)
attack_curve(stage_decay, count) ==
    LET inverse == [n \in 1..count |->
                      (WScale * Pow(FracDen, n - 1)) \div Pow(FracDen - stage_decay, n - 1)]
    IN  [n \in 1..count |-> (inverse[n] * WScale) \div MaxOf(inverse)]

\* lines 100-101: D = D * (1 - sustain_level) + sustain_level
decay_stage(stage_decay, count, level) ==
    LET D == decay_curve(stage_decay, count)
        s == (level * WScale) \div FracDen
    IN  [n \in 1..count |-> (D[n] * (WScale - s)) \div WScale + s]

\* lines 102-103: S = S * sustain_level
sustain_stage(stage_decay, count, level) ==
    LET S == decay_curve(stage_decay, count)
    IN  [n \in 1..count |-> (S[n] * level) \div FracDen]

\* lines 104-105: R = R * S[-1]
release_stage(stage_decay, count, S) ==
    LET R == decay_curve(stage_decay, count)
    IN  [n \in 1..count |-> (R[n] * S[Len(S)]) \div WScale]

\* line 108: 0.1 * (1 - 0.1) ** n for n in range(5), times 10 ** 5
smoothing ==
    [n \in 1..5 |-> Pow(9, n - 1) * Pow(10, 5 - n)]

\* np.convolve(a, v, mode='same') with v already divided by its sum (line
\* 109): the middle max(len(a), len(v)) values of the full convolution
convolve_same(a, v) ==
    LET N == Len(a)
        M == Len(v)
        shorter == IF N < M THEN N ELSE M
        offset == shorter - 1 - (shorter \div 2)
        term(t, j) == IF t - j >= 0 /\ t - j < N THEN a[t - j + 1] * v[j + 1] ELSE 0
        full(t) == Sum([j \in 1..M |-> term(t, j - 1)])
    IN  [k \in 1..Max(N, M) |-> full(k - 1 + offset) \div Sum(v)]

\* np.repeat(a, count)
repeat(a, count) ==
    [j \in 1..(Len(a) * count) |-> a[((j - 1) \div count) + 1]]

\* line 115: weights[-1] - weights[-1] / tail * np.arange(tail)
tail_ramp(last, tail) ==
    [j \in 1..tail |-> last - (last * (j - 1)) \div tail]

\* lines 84-85: the assertions
adsr_profile_ok(stage_lengths, stage_decays) ==
    /\ Sum(stage_lengths) = FracDen
    /\ Len(stage_lengths) = 4
    /\ Len(stage_decays) = 4

\* lines 88-110: the four stage curves, concatenated and smoothed
\* (one value per cycle of the fundamental)
cycle_weights(intervals, stage_lengths, stage_decays, level) ==
    LET len_A == stage_cycles(intervals, stage_lengths[1])
        len_D == stage_cycles(intervals, stage_lengths[2])
        len_S == stage_cycles(intervals, stage_lengths[3])
        len_R == stage_cycles(intervals, stage_lengths[4])
        A == attack_curve(stage_decays[1], len_A)
        D == decay_stage(stage_decays[2], len_D, level)
        S == sustain_stage(stage_decays[3], len_S, level)
        R == release_stage(stage_decays[4], len_R, S)
    IN  convolve_same(A \o D \o S \o R, smoothing)

\* the whole of get_adsr_weights, lines 84-116
adsr_call ==
    /\ pc = "adsr"
    /\ IF ~adsr_profile_ok(length, decay)
          THEN /\ pc' = "AssertionError"
               /\ UNCHANGED weights
          ELSE LET intervals == adsr_intervals(frequency, dur)
               IN  IF intervals = 0
                      THEN \* line 112: sample_rate * duration / intervals
                           /\ pc' = "ZeroDivisionError"
                           /\ UNCHANGED weights
                      ELSE LET per_cycle == cycle_weights(intervals, length, decay, sustain_level)
                               seconds == fmul(float(synth_rate), dur)
                               count == int(fdiv(seconds, float(intervals)))
                               repeated == repeat(per_cycle, count)
                               tail == int(fsub(seconds, float(Len(repeated))))
                           IN  IF tail <= 0
                                  THEN /\ weights' = repeated
                                       /\ pc' = "adsr_return"
                                  ELSE IF repeated = <<>>
                                          THEN \* weights[-1] of an empty array
                                               /\ pc' = "IndexError"
                                               /\ UNCHANGED weights
                                          ELSE /\ weights' = repeated \o
                                                     tail_ramp(repeated[Len(repeated)], tail)
                                               /\ pc' = "adsr_return"
    /\ UNCHANGED <<pedal_vars, overtone_vars, call_vars, profile_vars, song_args,
                   song_locals, harness_vars>>

\* -------------------------------------------------------- get_song_data

\* get_piano_notes(): note name -> frequency, scaled down with the sample rate
get_piano_notes ==
    [name \in {"A", "B"} |-> IF name = "A" THEN 3 ELSE 5]

\* line 190: np.cumsum(np.array(note_values) * sample_rate).astype(int)
cumulative_samples(values, rate) ==
    LET samples == [k \in 1..Len(values) |-> fmul(values[k], float(rate))]
    IN  [k \in 1..Len(values) |-> int(cumsum(samples)[k])]

\* line 191: np.concatenate(([0], end_idx[:-1]))
note_starts(values, rate) ==
    LET ends == cumulative_samples(values, rate)
    IN  <<0>> \o SubSeq(ends, 1, Len(ends) - 1)

\* line 192: [start_idx[i] + new_values[i] * sample_rate ...].astype(int)
note_ends(starts, effective, rate) ==
    [k \in 1..Len(effective) |->
        int(fadd(float(starts[k]), fmul(effective[k], float(rate))))]

\* np.zeros((n,))
zeros(n) ==
    [j \in 1..n |-> 0]

\* the length of the element-wise product or sum of arrays of lengths a and b
\* under numpy broadcasting; -1 when the shapes do not broadcast
broadcast(a, b) ==
    IF a = b THEN a
    ELSE IF a = 1 THEN b
    ELSE IF b = 1 THEN a
    ELSE -1

\* this_note * weights, for shapes that broadcast
multiply(a, b) ==
    [j \in 1..broadcast(Len(a), Len(b)) |->
        (IF Len(a) = 1 THEN a[1] ELSE a[j]) * (IF Len(b) = 1 THEN b[1] ELSE b[j])]

\* the slice bounds lo:hi as numpy clips them to a buffer of n samples
clip(x, n) ==
    IF x > n THEN n ELSE x

\* lines 186-187: the frequency of every note name
song_lookup ==
    /\ pc = "song_lookup"
    /\ IF \A k \in 1..Len(music_notes) : music_notes[k] \in DOMAIN get_piano_notes
          THEN /\ frequencies' = [k \in 1..Len(music_notes) |-> get_piano_notes[music_notes[k]]]
               /\ pc' = "pedal_assert"
          ELSE /\ pc' = "KeyError"
               /\ UNCHANGED frequencies
    /\ UNCHANGED <<duration, start_idx, end_idx, song, i, song_out>>
    /\ UNCHANGED <<pedal_vars, overtone_vars, call_vars, profile_vars, weights,
                   song_args, harness_vars>>

\* lines 189-194, once apply_pedal (line 188) has returned
song_indices ==
    /\ pc = "pedal_return"
    /\ duration' = int(fmul(fsum(note_values), float(sample_rate)))
    /\ start_idx' = note_starts(note_values, sample_rate)
    /\ end_idx' = note_ends(start_idx', new_values, sample_rate)
    /\ song' = zeros(duration')
    /\ i' = 0
    /\ pc' = "song_loop"
    /\ UNCHANGED <<frequencies, song_out>>
    /\ UNCHANGED <<pedal_vars, overtone_vars, call_vars, profile_vars, weights,
                   song_args, harness_vars>>

\* lines 195-196: the next note; apply_overtones is called with the note's
\* frequency and effective duration and the overtone profile, and with no
\* sample_rate and no amplitude, so with its defaults
song_note ==
    /\ pc = "song_loop"
    /\ i < Len(music_notes)
    /\ frequency' = frequencies[i + 1]
    /\ dur' = new_values[i + 1]
    /\ synth_rate' = DefaultRate
    /\ synth_amp' = DEFAULT_AMPLITUDE
    /\ pc' = "overtones"
    /\ UNCHANGED <<pedal_vars, overtone_vars, profile_vars, weights, song_args,
                   song_locals, harness_vars>>

\* lines 197-198: get_adsr_weights is called with the same frequency and
\* duration and the ADSR profile, and with no sample_rate
song_envelope ==
    /\ pc = "overtones_return"
    /\ pc' = "adsr"
    /\ UNCHANGED <<pedal_vars, overtone_vars, call_vars, profile_vars, weights,
                   song_args, song_locals, harness_vars>>

\* line 199: song[start_idx[i]:end_idx[i]] += this_note * weights
song_accumulate ==
    /\ pc = "adsr_return"
    /\ LET lo == clip(start_idx[i + 1], duration)
           hi == clip(end_idx[i + 1], duration)
           slots == IF hi > lo THEN hi - lo ELSE 0
           shape == broadcast(Len(fundamental), Len(weights))
       IN  IF shape = -1 \/ broadcast(slots, shape) # slots
              THEN /\ pc' = "ValueError"
                   /\ UNCHANGED <<song, i>>
              ELSE LET product == multiply(fundamental, weights)
                   IN  /\ song' = [j \in 1..duration |->
                                      IF lo < j /\ j <= hi
                                         THEN song[j] + (IF shape = 1 THEN product[1]
                                                                      ELSE product[j - lo])
                                         ELSE song[j]]
                       /\ i' = i + 1
                       /\ pc' = "song_loop"
    /\ UNCHANGED <<frequencies, duration, start_idx, end_idx, song_out>>
    /\ UNCHANGED <<pedal_vars, overtone_vars, call_vars, profile_vars, weights,
                   song_args, harness_vars>>

\* lines 201-202: song = song * (amplitude / np.max(song)); return song.
\* The result is kept as the exact quotient num * mul / div; div = 0 is
\* numpy's division by a float zero, which yields inf and nan samples
song_normalize ==
    /\ pc = "song_loop"
    /\ i = Len(music_notes)
    /\ IF song = <<>>
          THEN \* np.max of an empty array
               /\ pc' = "ValueError"
               /\ UNCHANGED song_out
          ELSE /\ song_out' = [num |-> song, mul |-> amplitude, div |-> MaxOf(song)]
               /\ pc' = "song_return"
    /\ UNCHANGED <<frequencies, duration, start_idx, end_idx, song, i>>
    /\ UNCHANGED <<pedal_vars, overtone_vars, call_vars, profile_vars, weights,
                   song_args, harness_vars>>

SongEnded ==
    pc \in {"song_return", "KeyError", "AssertionError", "IndexError",
            "ZeroDivisionError", "ValueError"}

\* the caller's argument objects, as get_song_data receives them
CurrentArgs ==
    [music_notes |-> music_notes, note_values |-> note_values,
     bar_value |-> bar_value, factor |-> factor, length |-> length,
     decay |-> decay, sustain_level |-> sustain_level,
     sample_rate |-> sample_rate, amplitude |-> amplitude]

\* the caller renders the same song a second time: the first call's frame is
\* gone and the same argument objects are passed again
render_again ==
    /\ SongEnded
    /\ render = 1
    /\ render' = 2
    /\ first' = [pc |-> pc, song_out |-> IF pc = "song_return" THEN song_out ELSE <<>>]
    /\ pc' = "song_lookup"
    /\ UNCHANGED given
    /\ UNCHANGED <<pedal_vars, overtone_vars, call_vars, profile_vars, weights,
                   song_args, song_locals>>

\* ------------------------------------------------------- specifications

\* values of the variables a specification does not use
NoCall ==
    /\ frequency = 0
    /\ dur = 0
    /\ synth_rate = 0
    /\ synth_amp = 0

NoProfile ==
    /\ factor = <<>>
    /\ length = <<>>
    /\ decay = <<>>
    /\ sustain_level = 0

NoOvertones ==
    /\ ot_frequencies = <<>>
    /\ ot_i = 0
    /\ sine_calls = <<>>
    /\ fundamental = <<>>

NoSong ==
    /\ music_notes = <<>>
    /\ sample_rate = 0
    /\ amplitude = 0
    /\ frequencies = <<>>
    /\ duration = 0
    /\ start_idx = <<>>
    /\ end_idx = <<>>
    /\ song = <<>>
    /\ i = 0
    /\ song_out = <<>>
    /\ render = 0
    /\ first = <<>>
    /\ given = <<>>

\* the floating-point numbers among the whole numbers of quanta lo..hi
Floats(lo, hi) ==
    {d \in lo..hi : nearest_float(d, 1) = d}

Durations == Floats(0, MaxDur)

NoteLists == UNION {[1..n -> Durations] : n \in 0..MaxNotes}

InitPedal ==
    /\ pc = "pedal_assert"
    /\ note_values \in NoteLists
    /\ bar_value \in Floats(1, MaxBar)
    /\ new_values = <<>>
    /\ start = 0
    /\ NoCall
    /\ NoProfile
    /\ NoOvertones
    /\ weights = <<>>
    /\ NoSong

NextPedal ==
    \/ pedal_assert
    \/ pedal_scan

SpecPedal == InitPedal /\ [][NextPedal]_vars

\* the rates apply_overtones and get_adsr_weights are called with: the
\* default one and an odd one
Rates == {DefaultRate - 1, DefaultRate}

\* the rates a song is rendered at: the default one and a lower one
SongRates == {DefaultRate - DefaultRate \div 4, DefaultRate}

Amplitudes == {DEFAULT_AMPLITUDE, DEFAULT_AMPLITUDE \div 2}

\* overtone profiles; the last does not sum to 1
Profiles ==
    {<<FracDen>>, <<FracDen - 1, 1>>, <<FracDen - 2, 1, 1>>, <<1, 1>>}

InitOvertones ==
    /\ pc = "overtones"
    /\ frequency \in 1..MaxFreq
    /\ dur \in Floats(1, MaxDur)
    /\ synth_rate \in Rates
    /\ synth_amp \in Amplitudes
    /\ factor \in Profiles
    /\ length = <<>>
    /\ decay = <<>>
    /\ sustain_level = 0
    /\ note_values = <<>>
    /\ bar_value = 0
    /\ new_values = <<>>
    /\ start = 0
    /\ NoOvertones
    /\ weights = <<>>
    /\ NoSong

NextOvertones ==
    \/ overtones_first
    \/ overtones_add
    \/ overtones_return

SpecOvertones == InitOvertones /\ [][NextOvertones]_vars

\* ADSR profiles <<stage lengths, decay factors, sustain level>>; the last
\* one's stage lengths do not sum to 1
AdsrProfiles ==
    {<<<<1, 1, 1, FracDen - 3>>, <<1, 1, 1, 1>>, FracDen - 1>>,
     <<<<0, 1, FracDen - 2, 1>>, <<2, 1, 0, 2>>, FracDen - 2>>,
     <<<<1, 1, 1, 0>>, <<1, 1, 1, 1>>, 1>>}

InitAdsr ==
    /\ pc = "adsr"
    /\ frequency \in 1..MaxFreq
    /\ dur \in Floats(1, 2 * MaxDur)
    /\ synth_rate \in Rates
    /\ synth_amp = 0
    /\ factor = <<>>
    /\ \E profile \in AdsrProfiles :
          /\ length = profile[1]
          /\ decay = profile[2]
          /\ sustain_level = profile[3]
    /\ note_values = <<>>
    /\ bar_value = 0
    /\ new_values = <<>>
    /\ start = 0
    /\ NoOvertones
    /\ weights = <<>>
    /\ NoSong

SpecAdsr == InitAdsr /\ [][adsr_call]_vars

SongDurations == Floats(1, 2 * MaxDur)

SongProfiles == {<<FracDen>>, <<FracDen - 1, 1>>}

SongAdsrProfiles ==
    {<<<<0, 1, FracDen - 2, 1>>, <<2, 1, 0, 2>>, FracDen - 2>>}

Init ==
    /\ pc = "song_lookup"
    /\ \E n \in 1..MaxSongNotes :
          /\ music_notes \in [1..n -> DOMAIN get_piano_notes]
          /\ note_values \in [1..n -> SongDurations]
    /\ bar_value \in Floats(1, 2 * MaxBar)
    /\ factor \in SongProfiles
    /\ \E profile \in SongAdsrProfiles :
          /\ length = profile[1]
          /\ decay = profile[2]
          /\ sustain_level = profile[3]
    /\ sample_rate \in SongRates
    /\ amplitude \in Amplitudes
    /\ new_values = <<>>
    /\ start = 0
    /\ NoCall
    /\ NoOvertones
    /\ weights = <<>>
    /\ frequencies = <<>>
    /\ duration = 0
    /\ start_idx = <<>>
    /\ end_idx = <<>>
    /\ song = <<>>
    /\ i = 0
    /\ song_out = <<>>
    /\ render = 1
    /\ first = <<>>
    /\ given = CurrentArgs

Next ==
    \/ song_lookup
    \/ pedal_assert
    \/ pedal_scan
    \/ song_indices
    \/ song_note
    \/ overtones_first
    \/ overtones_add
    \/ overtones_return
    \/ song_envelope
    \/ adsr_call
    \/ song_accumulate
    \/ song_normalize
    \/ render_again

Spec == Init /\ [][Next]_vars

\* the interpreter runs the call to its end: a step that can be taken is taken
FairSpecPedal == SpecPedal /\ WF_vars(NextPedal)

\* ------------------------------------------------- claims on apply_pedal

PedalErrors == {"AssertionError", "IndexError"}

PedalEnded == pc \in PedalErrors \cup {"pedal_return"}

Positive(s) ==
    \A k \in 1..Len(s) : s[k] > 0

\* the notes a+1..b of s sum exactly to bar, both as real numbers and as the
\* program adds them
SumsToBar(s, a, b, bar) ==
    /\ Sum(SubSeq(s, a + 1, b)) = bar
    /\ fsum(SubSeq(s, a + 1, b)) = bar

\* B is the set of cut points of a partition of s into consecutive runs that
\* each sum exactly to bar (0 and Len(s) are cuts; no notes, no runs)
IsBarPartition(B, s, bar) ==
    /\ 0 \in B
    /\ Len(s) \in B
    /\ \A a \in B : a < Len(s) =>
            \E b \in B : /\ b > a
                         /\ \A c \in B : ~(a < c /\ c < b)
                         /\ SumsToBar(s, a, b, bar)

BarPartitions(s, bar) ==
    {B \in SUBSET (0..Len(s)) : IsBarPartition(B, s, bar)}

\* the notes of k's run that precede note k (1-based k) under partition B
BeforeInRun(B, s, k) ==
    LET a == CHOOSE x \in B : x < k /\ \A y \in B : y < k => y <= x
    IN  SubSeq(s, a + 1, k - 1)

ResolvedAsSustain(B) ==
    /\ pc = "pedal_return"
    /\ Len(new_values) = Len(note_values)
    /\ \A k \in 1..Len(note_values) :
            new_values[k] = bar_value - Sum(BeforeInRun(B, note_values, k))

\* C1: every bar-aligned sequence of positive durations is resolved: the
\* result has the length of the input and note k rings for bar_value less the
\* durations before it in its run
C1_AlignedResolved ==
    (PedalEnded /\ Positive(note_values)) =>
        \A B \in BarPartitions(note_values, bar_value) : ResolvedAsSustain(B)

HasPrefixSum(s, v) ==
    \E k \in 1..Len(s) : fsum(SubSeq(s, 1, k)) = v

\* C2: when no prefix of the durations from the current run start sums exactly
\* to bar_value, the call ends in an exception and returns no list
C2_MisalignedFails ==
    [][ /\ (pc = "pedal_scan" /\ ~HasPrefixSum(SliceFrom(note_values, start), bar_value))
            => pc' \in PedalErrors
        /\ (pc = "pedal_assert" /\ ~HasPrefixSum(note_values, bar_value))
            => (pc' = "AssertionError" \/ (pc' = "pedal_scan" /\ start' = 0))
        /\ pc \in PedalErrors => pc' = pc ]_vars

C2_Witness ==
    /\ pc = "IndexError"
    /\ start > 0
    /\ Positive(note_values)
    /\ fsum(note_values) % bar_value = 0

\* C6: on return, every effective duration of a sequence of positive nominal
\* durations lies between the note's nominal duration and bar_value
C6_EffectiveBounds ==
    (pc = "pedal_return" /\ Positive(note_values)) =>
        /\ Len(new_values) = Len(note_values)
        /\ \A k \in 1..Len(note_values) :
               note_values[k] <= new_values[k] /\ new_values[k] <= bar_value

\* C10: the scan loop ends on every input, and each iteration moves the run
\* start strictly forward without passing the end of the sequence
C10_ScanTerminates ==
    /\ <>PedalEnded
    /\ [][ (pc = "pedal_scan" /\ pc' \notin PedalErrors) =>
              (start < start' /\ start' <= Len(note_values)) ]_vars

C10_Witness ==
    /\ pc = "pedal_return"
    /\ start = Len(note_values)
    /\ Positive(note_values)
    /\ Len(new_values) = MaxNotes
    /\ note_values[1] < bar_value
    /\ note_values[MaxNotes] = bar_value

\* --------------------------------------------- claims on apply_overtones

OvertonesRunning == pc \in {"overtones_loop", "overtones_return"}

\* one get_sine_wave call per profile entry made so far, each at its own
\* entry of the frequency table, none skipped
OneWavePerEntry ==
    /\ Len(sine_calls) = ot_i
    /\ \A k \in 1..Len(sine_calls) : sine_calls[k][1] = ot_frequencies[k]
    /\ pc = "overtones_return" => Len(sine_calls) = Len(factor)

\* C8 as stated: harmonic k (0-based) is synthesized at
\* min(frequency * (k + 1), sample_rate / 2), one sine wave per profile entry;
\* the comparison is made on doubled values, sample_rate / 2 being exact
C8_ClampedAtHalfRate ==
    OvertonesRunning =>
        /\ Len(ot_frequencies) = Len(factor)
        /\ \A k \in 1..Len(factor) :
               2 * ot_frequencies[k] =
                   (IF 2 * frequency * k <= synth_rate THEN 2 * frequency * k
                                                      ELSE synth_rate)
        /\ OneWavePerEntry

\* C8 amended: harmonic k is synthesized at
\* min(frequency * (k + 1), floor(sample_rate / 2)), one sine wave per entry
C8_ClampedAtFloorHalfRate ==
    OvertonesRunning =>
        /\ Len(ot_frequencies) = Len(factor)
        /\ \A k \in 1..Len(factor) :
               /\ ot_frequencies[k] <= frequency * k
               /\ 2 * ot_frequencies[k] <= synth_rate
               /\ \/ ot_frequencies[k] = frequency * k
                  \/ 2 * (ot_frequencies[k] + 1) > synth_rate
        /\ OneWavePerEntry

C8_Witness ==
    /\ pc = "overtones_return"
    /\ synth_rate % 2 = 1
    /\ Len(sine_calls) = 3
    /\ sine_calls[2][1] = sine_calls[3][1]
    /\ sine_calls[1][1] < sine_calls[2][1]

\* -------------------------------------------- claims on get_adsr_weights

Abs(x) ==
    IF x >= 0 THEN x ELSE -x

\* C4: the returned weight curve is round(duration * sample_rate) samples
\* long, give or take one
C4_EnvelopeLength ==
    pc = "adsr_return" =>
        Abs(Len(weights) - round_float(fmul(dur, float(synth_rate)))) <= 1

\* ----------------------------------------------- claims on get_song_data

MaxAbs(s) ==
    CHOOSE x \in {Abs(s[k]) : k \in 1..Len(s)} : \A k \in 1..Len(s) : Abs(s[k]) <= x

\* C3: a returned buffer that was not all zeros before normalization has
\* max(abs(output)) = amplitude.  output[j] = num[j] * mul / div, so with
\* mul = amplitude > 0 the peak is amplitude exactly when max |num| = |div|
C3_PeakIsAmplitude ==
    (pc = "song_return" /\ \E j \in 1..Len(song) : song[j] # 0) =>
        /\ song_out.div # 0
        /\ song_out.mul = amplitude
        /\ MaxAbs(song_out.num) = Abs(song_out.div)

InNoteSynthesis ==
    pc \in {"overtones", "overtones_loop", "overtones_return", "adsr", "adsr_return"}

\* C7: every note's waveform and envelope are generated with the sample rate
\* given to the assembler and the note's effective duration, and their
\* product has end_i - start_i samples
C7_NoteRenderedAtSongRate ==
    /\ InNoteSynthesis => (synth_rate = sample_rate /\ dur = new_values[i + 1])
    /\ pc = "adsr_return" =>
           broadcast(Len(fundamental), Len(weights)) = end_idx[i + 1] - start_idx[i + 1]

RECURSIVE BarCuts(_, _, _)
\* the indices at which the resolver closes a run of s, scanning from `from`
BarCuts(s, bar, from) ==
    LET hits == {k \in (from + 1)..Len(s) : fsum(SubSeq(s, from + 1, k)) = bar}
    IN  IF hits = {} THEN {} ELSE {Min(hits)} \cup BarCuts(s, bar, Min(hits))

\* the sample at which the bar of note k ends: where the first note of the
\* next bar starts, or the end of the buffer for the last bar
BarEndSample(k) ==
    LET b == Min({c \in BarCuts(note_values, bar_value, 0) : c >= k})
    IN  IF b = Len(note_values) THEN duration ELSE start_idx[b + 1]

\* C9: once the offsets of a bar-aligned song are computed,
\* 0 <= start_i <= end_i <= buffer length = floor(sum of nominal durations *
\* sample_rate), and no note's window extends past the end of its bar
C9_WindowsInsideBuffer ==
    (start_idx # <<>> /\ Positive(note_values)) =>
        /\ Len(start_idx) = Len(note_values)
        /\ Len(end_idx) = Len(note_values)
        /\ duration = int(fmul(fsum(note_values), float(sample_rate)))
        /\ \A k \in 1..Len(note_values) :
               /\ 0 <= start_idx[k]
               /\ start_idx[k] <= end_idx[k]
               /\ end_idx[k] <= duration
               /\ end_idx[k] <= BarEndSample(k)

\* C5: a second render of the same song ends as the first did and returns
\* the same buffer, and the argument objects are never changed
C5_RenderRepeatable ==
    /\ CurrentArgs = given
    /\ (render = 2 /\ SongEnded) =>
           /\ first.pc = pc
           /\ pc = "song_return" => first.song_out = song_out

C5_Witness ==
    /\ render = 2
    /\ pc = "song_return"
    /\ Len(note_values) >= 2
    /\ new_values[1] > note_values[1]
    /\ song_out.div > 0
    /\ first.song_out = song_out

====
